---- MODULE Spec2Model ----
(***************************************************************************)
(* Model of scripts/check_3pp_licenses.js: one run of the license check.   *)
(*                                                                         *)
(* A JavaScript string is a sequence of one-character strings, so that     *)
(* split(', '), toLocaleLowerCase() and localeCompare() are computed the   *)
(* way the runtime computes them.  A value that may be `undefined` is a    *)
(* record [def, str].  The file system is the four paths the script        *)
(* touches; fs.mkdirSync and fs.renameSync are taken to succeed (their     *)
(* failure depends on permissions, which are not part of the state); the   *)
(* exceptions that depend on the files' presence and content (reading a    *)
(* missing summary, JSON.parse of malformed text, a method call on an      *)
(* undefined field) are modelled and reach the top-level catch handler.    *)
(***************************************************************************)
EXTENDS Integers, Sequences, FiniteSets, TLC

\* Largest number of lines the scanner writes to the summary file.
MaxLines == 2

----------------------------------------------------------------------------
(* Strings                                                                 *)

UpperChars == <<"A","B","C","D","E","F","G","H","I","J","K","L","M",
                "N","O","P","Q","R","S","T","U","V","W","X","Y","Z">>
LowerChars == <<"a","b","c","d","e","f","g","h","i","j","k","l","m",
                "n","o","p","q","r","s","t","u","v","w","x","y","z">>

IndexIn(chars, c) ==
    IF \E i \in 1..Len(chars) : chars[i] = c
    THEN CHOOSE i \in 1..Len(chars) : chars[i] = c
    ELSE 0

\* String.prototype.toLocaleLowerCase() on one character.
LowerChar(c) ==
    IF IndexIn(UpperChars, c) > 0 THEN LowerChars[IndexIn(UpperChars, c)] ELSE c

\* String.prototype.toLocaleLowerCase().
ToLocaleLowerCase(s) == [i \in 1..Len(s) |-> LowerChar(s[i])]

\* Collation weights of a character.  Level 1: letters by alphabet
\* position, anything else before the letters.  Level 3: lower case before
\* upper case.
Weight(level, c) ==
    IF level = 1 THEN IndexIn(LowerChars, LowerChar(c))
    ELSE IF IndexIn(UpperChars, c) > 0 THEN 1 ELSE 0

RECURSIVE CompareAt(_, _, _, _)
\* Lexicographic comparison of a and b from position i by the weights of
\* one level: -1, 0 or 1.
CompareAt(level, a, b, i) ==
    IF i > Len(a) /\ i > Len(b) THEN 0
    ELSE IF i > Len(a) THEN -1
    ELSE IF i > Len(b) THEN 1
    ELSE IF Weight(level, a[i]) < Weight(level, b[i]) THEN -1
    ELSE IF Weight(level, a[i]) > Weight(level, b[i]) THEN 1
    ELSE CompareAt(level, a, b, i + 1)

\* String.prototype.localeCompare(): letters first, case as tie-break.
LocaleCompare(a, b) ==
    IF CompareAt(1, a, b, 1) # 0
    THEN CompareAt(1, a, b, 1)
    ELSE CompareAt(3, a, b, 1)

\* The summary's field separator ', '.
Separator == <<",", " ">>

\* Whether sep occurs in s at position i.
OccursAt(s, sep, i) ==
    /\ i + Len(sep) - 1 <= Len(s)
    /\ \A k \in 1..Len(sep) : s[i + k - 1] = sep[k]

RECURSIVE SplitFrom(_, _, _, _)
\* String.prototype.split(sep) from position i with the field cur open.
SplitFrom(s, sep, i, cur) ==
    IF i > Len(s) THEN <<cur>>
    ELSE IF OccursAt(s, sep, i)
         THEN <<cur>> \o SplitFrom(s, sep, i + Len(sep), <<>>)
         ELSE SplitFrom(s, sep, i + 1, Append(cur, s[i]))

\* line.split(', ')
Split(s, sep) == SplitFrom(s, sep, 1, <<>>)

\* A value that is `undefined`, and a defined string.
Undefined == [def |-> FALSE, str |-> <<>>]
Str(s) == [def |-> TRUE, str |-> s]

\* Array destructuring: the k-th element, or undefined past the end.
Element(parts, k) == IF k <= Len(parts) THEN Str(parts[k]) ELSE Undefined

\* readSummaryLines: the record one line yields.
ParseLine(line) ==
    LET parts == Split(line, Separator)
    IN  [dependency |-> Element(parts, 1),
         license    |-> Element(parts, 2),
         status     |-> Element(parts, 3),
         source     |-> Element(parts, 4)]

\* The literal 'restricted'.
RestrictedLiteral == <<"r","e","s","t","r","i","c","t","e","d">>

\* entry.status.toLocaleLowerCase(): a TypeError when status is undefined.
StatusThrows(entry) == ~entry.status.def

\* entry.status.toLocaleLowerCase() === 'restricted'
IsRestricted(entry) ==
    /\ entry.status.def
    /\ ToLocaleLowerCase(entry.status.str) = RestrictedLiteral

RECURSIVE InsertSorted(_, _, _)
\* Insert e after every element of the sorted sequence s that does not
\* compare greater than it (Array.prototype.sort is stable).
InsertSorted(s, e, i) ==
    IF i > Len(s) THEN Append(s, e)
    ELSE IF LocaleCompare(s[i].dependency.str, e.dependency.str) > 0
         THEN SubSeq(s, 1, i - 1) \o <<e>> \o SubSeq(s, i, Len(s))
         ELSE InsertSorted(s, e, i + 1)

RECURSIVE SortByDependency(_)
\* restricted.sort((a, b) => a.dependency.localeCompare(b.dependency))
SortByDependency(s) ==
    IF s = <<>> THEN <<>>
    ELSE InsertSorted(SortByDependency(SubSeq(s, 1, Len(s) - 1)), s[Len(s)], 1)

----------------------------------------------------------------------------
(* JavaScript values, the baseline and subprocess results                  *)

\* null, a number and a string, as far as the script tells them apart.
Null == [type |-> "null", num |-> 0, text |-> ""]
Num(n) == [type |-> "number", num |-> n, text |-> ""]
Text(t) == [type |-> "string", num |-> 0, text |-> t]

\* Has with a slip: only the first entry is looked at.
HasFirstKey(m, k) == Len(m) > 0 /\ m[1].key = k

\* Map.prototype.has / get / keys on a map kept as the sequence of its
\* [key, value] entries in insertion order.
Has(m, k) == \E i \in 1..Len(m) : m[i].key = k
Get(m, k) == m[CHOOSE i \in 1..Len(m) : m[i].key = k].value
Keys(m) == [i \in 1..Len(m) |-> m[i].key]

\* Map.prototype.set: a new key is appended, a known key keeps its place.
MapSet(m, k, v) ==
    IF Has(m, k)
    THEN [i \in 1..Len(m) |-> IF m[i].key = k THEN [key |-> k, value |-> v] ELSE m[i]]
    ELSE Append(m, [key |-> k, value |-> v])

RECURSIVE NewMap(_)
\* new Map(entries)
NewMap(entries) ==
    IF entries = <<>> THEN <<>>
    ELSE MapSet(NewMap(SubSeq(entries, 1, Len(entries) - 1)),
                entries[Len(entries)].key, entries[Len(entries)].value)

\* SetDelete with a slip: the member is removed only when it comes first.
SetDeleteHead(s, k) == IF Len(s) > 0 /\ Head(s) = k THEN Tail(s) ELSE s

\* Set.prototype.delete on a set kept as the sequence of its members.
SetDelete(s, k) == SelectSeq(s, LAMBDA x : x # k)

\* The annotation stored for an array element of the baseline.
NullValue == "null"

\* BaselineAccepted with a slip: `typeof json === 'object'` without the
\* test for null.
BaselineAcceptedNull(root) == root.type \in {"array", "object", "null"}

\* readBaseline once the text is parsed: the map, or the fatal exit.
\* A root is [type, items, props]: items of an array, entries of an object.
BaselineAccepted(root) == root.type \in {"array", "object"}
BaselineMap(root) ==
    IF root.type = "array"
    THEN NewMap([i \in 1..Len(root.items) |-> [key |-> root.items[i], value |-> NullValue]])
    ELSE NewMap(root.props)

RECURSIVE FilterUnhandled(_, _, _)
\* restricted.filter(entry => { unmatched.delete(entry.dependency);
\*                              return !baseline.has(entry.dependency); })
\* from entry i on: the entries kept and what is left of unmatched.
FilterUnhandled(entries, map, acc) ==
    IF entries = <<>> THEN acc
    ELSE FilterUnhandled(
            Tail(entries), map,
            [unmatched |-> SetDelete(acc.unmatched, Head(entries).dependency.str),
             unhandled |-> IF ~Has(map, Head(entries).dependency.str)
                           THEN Append(acc.unhandled, Head(entries))
                           ELSE acc.unhandled])

\* What cp.spawnSync can return: exit 0, exit 1, killed by a signal,
\* not started at all.
SpawnResults ==
    { [error |-> FALSE, signal |-> Null, status |-> Num(0)],
      [error |-> FALSE, signal |-> Null, status |-> Num(1)],
      [error |-> FALSE, signal |-> Text("SIGTERM"), status |-> Null],
      [error |-> TRUE,  signal |-> Null, status |-> Null] }

\* GetErrorFromStatus with a slip: the signal is not looked at and a
\* missing exit code passes for success.
GetErrorFromStatusNoSignal(status) ==
    IF status.status.type = "number" /\ status.status.num # 0 THEN "code"
    ELSE "undefined"

\* getErrorFromStatus: which message it returns, "undefined" for none.
GetErrorFromStatus(status) ==
    IF status.signal.type = "string" THEN "signal"
    ELSE IF status.status # Num(0) THEN "code"
    ELSE "undefined"

\* `X ${entry}, ${license}`
XLine(entry) == <<"X", " ">> \o entry.dependency.str \o <<",", " ">> \o entry.license.str

\* logRestrictedDashSummaryEntries
LogRestricted(entries) ==
    [i \in 1..Len(entries) |-> [fn |-> "log", msg |-> "X", str |-> XLine(entries[i])]]

\* A fixed message printed by info, warn, error or console.error.
Msg(fn, msg) == [fn |-> fn, msg |-> msg, str |-> <<>>]

RECURSIVE LogUnmatched(_, _)
\* The loop over unmatched: `> ${dependency}` and, when the stored data is
\* truthy, `${dependency}:` with the data.
LogUnmatched(keys, map) ==
    IF keys = <<>> THEN <<>>
    ELSE <<[fn |-> "log", msg |-> ">", str |-> <<">", " ">> \o Head(keys)]>>
         \o (IF Has(map, Head(keys)) /\ Get(map, Head(keys)) # NullValue
             THEN <<[fn |-> "console.warn", msg |-> Get(map, Head(keys)),
                     str |-> Head(keys) \o <<":">>]>>
             ELSE <<>>)
         \o LogUnmatched(Tail(keys), map)

----------------------------------------------------------------------------
(* The files of a run                                                      *)

\* The lines the scanner can write.
Restricted == <<"R","e","s","t","r","i","c","t","e","d">>
RESTRICTED == <<"R","E","S","T","R","I","C","T","E","D">>
Approved == <<"a","p","p","r","o","v","e","d">>
RowA == <<"A">> \o Separator \o <<"L">> \o Separator \o RestrictedLiteral \o Separator \o <<"s">>
RowB == <<"B">> \o Separator \o <<"M">> \o Separator \o Restricted \o Separator \o <<"s">>
RowC == <<"C">> \o Separator \o <<"L">> \o Separator \o Approved \o Separator \o <<"s">>
RowLowerA == <<"a">> \o Separator \o <<"M">> \o Separator \o RESTRICTED \o Separator \o <<"s">>
RowThree == <<"Z">> \o Separator \o <<"L">> \o Separator \o RestrictedLiteral
RowTwo == <<"Z">> \o Separator \o <<"L">>
RowEmpty == <<>>
Rows == {RowA, RowB, RowC, RowLowerA, RowThree, RowTwo, RowEmpty}

RECURSIVE SeqsUpTo(_, _)
\* The sequences over S of length at most n.
SeqsUpTo(S, n) ==
    IF n = 0 THEN {<<>>}
    ELSE SeqsUpTo(S, n - 1) \cup
         {Append(q, x) : q \in {r \in SeqsUpTo(S, n - 1) : Len(r) = n - 1}, x \in S}

\* The summaries the scanner can write.
Summaries == SeqsUpTo(Rows, MaxLines)

\* A path with no file, and a file with its lines and the run that wrote it.
NoFile == [exists |-> FALSE, lines |-> <<>>, origin |-> "none"]
File(lines, origin) == [exists |-> TRUE, lines |-> lines, origin |-> origin]

\* The summary a previous run left: nothing restricted in it.
PreviousSummary == <<RowC>>

\* The roots JSON.parse can return for the baseline file.
Root(type, items, props) == [type |-> type, items |-> items, props |-> props]
Roots ==
    { Root("null", <<>>, <<>>),
      Root("number", <<>>, <<>>),
      Root("string", <<>>, <<>>),
      Root("boolean", <<>>, <<>>),
      Root("array", << <<"A">>, <<"B">> >>, <<>>),
      Root("array", << <<"A">>, <<"Z">>, <<"A">> >>, <<>>),
      Root("object", <<>>, << [key |-> <<"A">>, value |-> NullValue],
                              [key |-> <<"Z">>, value |-> "note"] >>),
      Root("object", <<>>, << [key |-> <<"a">>, value |-> "note"],
                              [key |-> <<"B">>, value |-> NullValue] >>) }

\* The baseline path: no file, a file JSON.parse rejects, or a parsed root.
NoBaseline == [exists |-> FALSE, wellFormed |-> FALSE, root |-> Root("null", <<>>, <<>>)]
BaselineFiles ==
    {NoBaseline}
    \cup {[exists |-> TRUE, wellFormed |-> FALSE, root |-> Root("null", <<>>, <<>>)]}
    \cup {[exists |-> TRUE, wellFormed |-> TRUE, root |-> r] : r \in Roots}

----------------------------------------------------------------------------
(* The run                                                                 *)

VARIABLES
    pc,            \* where main is: "fetch", "backup", "scan", "parse",
                   \* "check", "reconcile", "done", "thrown", "exited"
    jarExists,     \* whether download/dash-licenses.jar exists
    jarAtStart,    \* whether it existed when the run started
    summaryFile,   \* license-check-summary.txt
    backupFile,    \* license-check-summary.txt.old
    baselineFile,  \* license-check-baseline.json
    spawned,       \* the subprocesses spawned so far: [bin, result]
    readOrigin,    \* the runs whose content readSummaryLines has yielded
    lineNo,        \* the next line readSummaryLines yields
    restricted,    \* the restricted entries collected (sorted once complete)
    baseline,      \* the map readBaseline returned
    reconciled,    \* whether the filter over restricted has run
    unmatched,     \* the baseline keys not matched
    unhandled,     \* the restricted entries not in the baseline
    out,           \* what was printed, in order
    thrown,        \* the error main was rejected with, "none" if none
    exits          \* the process.exit calls: [code, at]

vars == <<pc, jarExists, jarAtStart, summaryFile, backupFile, baselineFile,
          spawned, readOrigin, lineNo, restricted, baseline, reconciled,
          unmatched, unhandled, out, thrown, exits>>

files == <<jarExists, jarAtStart, summaryFile, backupFile, baselineFile>>
reading == <<readOrigin, lineNo, restricted>>
reconciling == <<baseline, reconciled, unmatched, unhandled>>

Init ==
    /\ pc = "fetch"
    /\ jarExists \in BOOLEAN
    /\ jarAtStart = jarExists
    /\ summaryFile \in {NoFile, File(PreviousSummary, "previous")}
    /\ backupFile \in {NoFile, File(<<RowA>>, "older")}
    /\ baselineFile \in BaselineFiles
    /\ spawned = <<>>
    /\ readOrigin = {}
    /\ lineNo = 1
    /\ restricted = <<>>
    /\ baseline = <<>>
    /\ reconciled = FALSE
    /\ unmatched = <<>>
    /\ unhandled = <<>>
    /\ out = <<>>
    /\ thrown = "none"
    /\ exits = <<>>

\* process.exit(code) at the place `at`, after printing `printed`.
Exit(code, at, printed) ==
    /\ pc' = "exited"
    /\ out' = out \o printed
    /\ exits' = Append(exits, [code |-> code, at |-> at])
    /\ UNCHANGED thrown

\* SpawnAborts with a slip: every failure of the subprocess aborts.
SpawnAbortsOnFailure(result) == result.error \/ result.status # Num(0)

\* spawn: the status is returned unless status.error is set, which exits.
SpawnAborts(result) == result.error

\* main, lines 35-45: the jar is there, or it is downloaded.
FetchPresent ==
    /\ pc = "fetch"
    /\ jarExists
    /\ pc' = "backup"
    /\ UNCHANGED <<files, spawned, reading, reconciling, out, thrown, exits>>

FetchDownload ==
    /\ pc = "fetch"
    /\ ~jarExists
    /\ \E result \in SpawnResults :
        /\ spawned' = Append(spawned, [bin |-> "curl", result |-> result])
        /\ IF SpawnAborts(result)
           THEN /\ Exit(1, "spawn", <<Msg("info", "Fetching dash-licenses..."),
                                      Msg("console.error", "status.error")>>)
                /\ UNCHANGED jarExists
           ELSE IF GetErrorFromStatus(result) # "undefined"
           THEN /\ Exit(1, "fetch", <<Msg("info", "Fetching dash-licenses..."),
                                      Msg("error", GetErrorFromStatus(result))>>)
                /\ jarExists' \in BOOLEAN
           ELSE /\ pc' = "backup"
                /\ out' = Append(out, Msg("info", "Fetching dash-licenses..."))
                /\ jarExists' = TRUE
                /\ UNCHANGED <<thrown, exits>>
    /\ UNCHANGED <<jarAtStart, summaryFile, backupFile, baselineFile,
                   reading, reconciling>>

\* Backup with a slip: the previous summary is left in place.
BackupSkipped ==
    /\ pc = "backup"
    /\ pc' = "scan"
    /\ UNCHANGED <<files, spawned, reading, reconciling, out, thrown, exits>>

\* main, lines 46-49: a summary that is there is renamed to `.old`.
Backup ==
    /\ pc = "backup"
    /\ IF summaryFile.exists
       THEN /\ backupFile' = summaryFile
            /\ summaryFile' = NoFile
            /\ out' = Append(out, Msg("info", "Backing up previous summary..."))
       ELSE UNCHANGED <<summaryFile, backupFile, out>>
    /\ pc' = "scan"
    /\ UNCHANGED <<jarExists, jarAtStart, baselineFile, spawned, reading,
                   reconciling, thrown, exits>>

\* What the scanner leaves at the summary path: a process that started
\* writes a summary or none; one that did not start writes nothing.
ScannerWrites(result, written) ==
    IF result.error \/ ~written.exists THEN summaryFile ELSE written

\* Scan with a slip: the scanner's failure ends the run as the download's
\* does.
ScanFatal ==
    /\ pc = "scan"
    /\ \E result \in SpawnResults,
          written \in {NoFile} \cup {File(s, "current") : s \in Summaries} :
        /\ spawned' = Append(spawned, [bin |-> "java", result |-> result])
        /\ summaryFile' = ScannerWrites(result, written)
        /\ IF SpawnAborts(result)
           THEN Exit(1, "spawn", <<Msg("info", "Running dash-licenses..."),
                                   Msg("console.error", "status.error")>>)
           ELSE IF GetErrorFromStatus(result) # "undefined"
           THEN Exit(1, "scan", <<Msg("info", "Running dash-licenses..."),
                                  Msg("error", GetErrorFromStatus(result))>>)
           ELSE /\ pc' = "parse"
                /\ out' = Append(out, Msg("info", "Running dash-licenses..."))
                /\ UNCHANGED <<thrown, exits>>
    /\ UNCHANGED <<jarExists, jarAtStart, backupFile, baselineFile, reading,
                   reconciling>>

\* main, lines 50-57: the scanner runs; its failure is a warning.
Scan ==
    /\ pc = "scan"
    /\ \E result \in SpawnResults,
          written \in {NoFile} \cup {File(s, "current") : s \in Summaries} :
        /\ spawned' = Append(spawned, [bin |-> "java", result |-> result])
        /\ summaryFile' = ScannerWrites(result, written)
        /\ IF SpawnAborts(result)
           THEN Exit(1, "spawn", <<Msg("info", "Running dash-licenses..."),
                                   Msg("console.error", "status.error")>>)
           ELSE /\ pc' = "parse"
                /\ out' = out \o <<Msg("info", "Running dash-licenses...")>>
                          \o (IF GetErrorFromStatus(result) # "undefined"
                              THEN <<Msg("warn", GetErrorFromStatus(result))>>
                              ELSE <<>>)
                /\ UNCHANGED <<thrown, exits>>
    /\ UNCHANGED <<jarExists, jarAtStart, backupFile, baselineFile, reading,
                   reconciling>>

\* readSummaryLines, line 126: fs.createReadStream of a path with no file
\* fails, and the failure ends the run through the top-level handler.
ReadMissing ==
    /\ pc = "parse"
    /\ ~summaryFile.exists
    /\ pc' = "thrown"
    /\ thrown' = "ENOENT"
    /\ UNCHANGED <<files, spawned, reading, reconciling, out, exits>>

\* getRestrictedDependenciesFromSummary, lines 109-113, for one line that
\* readSummaryLines yields (lines 126-129).
ReadLine ==
    /\ pc = "parse"
    /\ summaryFile.exists
    /\ lineNo <= Len(summaryFile.lines)
    /\ LET entry == ParseLine(summaryFile.lines[lineNo])
       IN  /\ readOrigin' = readOrigin \cup {summaryFile.origin}
           /\ lineNo' = lineNo + 1
           /\ IF StatusThrows(entry)
              THEN pc' = "thrown" /\ thrown' = "TypeError" /\ UNCHANGED restricted
              ELSE /\ pc' = "parse"
                   /\ UNCHANGED thrown
                   /\ restricted' = IF IsRestricted(entry)
                                    THEN Append(restricted, entry)
                                    ELSE restricted
    /\ UNCHANGED <<files, spawned, reconciling, out, exits>>

\* getRestrictedDependenciesFromSummary, lines 114-116: the file is read,
\* the entries are sorted and returned.
ReadEnd ==
    /\ pc = "parse"
    /\ summaryFile.exists
    /\ lineNo > Len(summaryFile.lines)
    /\ restricted' = SortByDependency(restricted)
    /\ pc' = "check"
    /\ UNCHANGED <<files, spawned, readOrigin, lineNo, reconciling, out, thrown, exits>>

\* main, lines 59 and 89: nothing restricted, nothing to check.
CheckNone ==
    /\ pc = "check"
    /\ Len(restricted) = 0
    /\ pc' = "done"
    /\ UNCHANGED <<files, spawned, reading, reconciling, out, thrown, exits>>

\* main, lines 60-62 with readBaseline: the baseline is loaded.
CheckBaseline ==
    /\ pc = "check"
    /\ Len(restricted) > 0
    /\ baselineFile.exists
    /\ IF ~baselineFile.wellFormed
       THEN /\ pc' = "thrown"
            /\ thrown' = "SyntaxError"
            /\ out' = Append(out, Msg("info", "Checking results against the baseline..."))
            /\ UNCHANGED <<baseline, exits>>
       ELSE IF ~BaselineAccepted(baselineFile.root)
       THEN /\ Exit(1, "readBaseline",
                    <<Msg("info", "Checking results against the baseline..."),
                      Msg("console.error", "Invalid format")>>)
            /\ UNCHANGED baseline
       ELSE /\ pc' = "reconcile"
            /\ baseline' = BaselineMap(baselineFile.root)
            /\ out' = Append(out, Msg("info", "Checking results against the baseline..."))
            /\ UNCHANGED <<thrown, exits>>
    /\ UNCHANGED <<files, spawned, reading, reconciled, unmatched, unhandled>>

\* main, lines 63-82: the restricted entries are matched with the baseline.
Reconcile ==
    /\ pc = "reconcile"
    /\ LET r == FilterUnhandled(restricted, baseline,
                                [unmatched |-> Keys(baseline), unhandled |-> <<>>])
           stale == IF Len(r.unmatched) > 0
                    THEN <<Msg("warn", "Some entries in the baseline did not match")>>
                         \o LogUnmatched(r.unmatched, baseline)
                    ELSE <<>>
       IN  /\ unmatched' = r.unmatched
           /\ unhandled' = r.unhandled
           /\ reconciled' = TRUE
           /\ IF Len(r.unhandled) > 0
              THEN Exit(1, "unhandled",
                        stale \o <<Msg("error", "Found results that aren't part of the baseline!")>>
                              \o LogRestricted(r.unhandled))
              ELSE /\ pc' = "done"
                   /\ out' = out \o stale
                   /\ UNCHANGED <<thrown, exits>>
    /\ UNCHANGED <<files, spawned, reading, baseline>>

\* CheckNoBaseline with a slip: the entries are printed and the run goes
\* on.
CheckNoBaselineGoesOn ==
    /\ pc = "check"
    /\ Len(restricted) > 0
    /\ ~baselineFile.exists
    /\ pc' = "done"
    /\ out' = out \o <<Msg("error", "Found unhandled restricted dependencies!")>>
                  \o LogRestricted(restricted)
    /\ UNCHANGED <<files, spawned, reading, reconciling, thrown, exits>>

\* main, lines 83-87: restricted entries and no baseline file.
CheckNoBaseline ==
    /\ pc = "check"
    /\ Len(restricted) > 0
    /\ ~baselineFile.exists
    /\ Exit(1, "unhandled",
            <<Msg("error", "Found unhandled restricted dependencies!")>>
            \o LogRestricted(restricted))
    /\ UNCHANGED <<files, spawned, reading, reconciling>>

\* main, lines 89-90.
Done ==
    /\ pc = "done"
    /\ Exit(0, "done", <<Msg("info", "Done.")>>)
    /\ UNCHANGED <<files, spawned, reading, reconciling>>

\* main().catch, lines 29-32.
Catch ==
    /\ pc = "thrown"
    /\ Exit(1, "catch", <<Msg("console.error", thrown)>>)
    /\ UNCHANGED <<files, spawned, reading, reconciling>>

Next ==
    \/ FetchPresent
    \/ FetchDownload
    \/ Backup
    \/ Scan
    \/ ReadMissing
    \/ ReadLine
    \/ ReadEnd
    \/ CheckNone
    \/ CheckBaseline
    \/ Reconcile
    \/ CheckNoBaseline
    \/ Done
    \/ Catch

Spec == Init /\ [][Next]_vars

----------------------------------------------------------------------------
(* Properties                                                              *)

\* The run has exited, and the code and place of its exit.
Exited == pc = "exited" /\ Len(exits) > 0
ExitCode == exits[Len(exits)].code
ExitAt == exits[Len(exits)].at

\* getRestrictedDependenciesFromSummary has returned its list.
ListReturned ==
    \/ pc \in {"check", "reconcile", "done"}
    \/ thrown = "SyntaxError"
    \/ Exited /\ ExitAt \in {"done", "unhandled", "readBaseline"}

\* The baseline file is there and readBaseline returns a map for it.
BaselineLoads ==
    /\ baselineFile.exists
    /\ baselineFile.wellFormed
    /\ baselineFile.root.type \in {"array", "object"}

\* The keys of the baseline file: the elements of an array, the keys of an
\* object.
FileKeys ==
    {baselineFile.root.items[i] : i \in 1..Len(baselineFile.root.items)}
    \cup {baselineFile.root.props[i].key : i \in 1..Len(baselineFile.root.props)}

\* The dependencies of the restricted entries.
RestrictedNames == {restricted[i].dependency.str : i \in 1..Len(restricted)}

\* The entries of the restricted list that no baseline key covers.
NotCovered(entry) == entry.dependency.str \notin FileKeys

\* The index in `out` of a message, 0 when it was not printed.
Printed(m) == IF \E i \in 1..Len(out) : out[i] = m
              THEN CHOOSE i \in 1..Len(out) : out[i] = m
              ELSE 0

\* C1: with a baseline that loads, unhandled is the restricted entries, in
\* their order and with duplicates, whose dependency is no baseline key, and
\* the run exits 1 when there is one and 0 when there is none.
C1_UnhandledIsUncovered ==
    (Exited /\ ListReturned /\ BaselineLoads) =>
        /\ unhandled = SelectSeq(restricted, NotCovered)
        /\ ExitCode = (IF Len(unhandled) > 0 THEN 1 ELSE 0)
        /\ \A i, j \in 1..Len(restricted) :
              i < j => LocaleCompare(restricted[i].dependency.str,
                                     restricted[j].dependency.str) <= 0

\* A run that kept one restricted entry and dropped another.
C1_Witness ==
    /\ Exited /\ BaselineLoads /\ reconciled
    /\ Len(restricted) = 2
    /\ Len(unhandled) = 1
    /\ ExitCode = 1

\* C2: a summary without a restricted row makes the run exit 0 whatever
\* the baseline is, and the baseline is not read.
C2_NoRestrictedRowExitsZero ==
    (/\ Exited
     /\ ExitAt \notin {"fetch", "spawn"}
     /\ summaryFile.exists
     /\ \A i \in 1..Len(summaryFile.lines) :
           ~IsRestricted(ParseLine(summaryFile.lines[i])))
    => (ExitCode = 0 /\ ~reconciled /\ baseline = <<>>)

\* C3: without a baseline file a non-empty restricted list ends the run
\* with code 1 after one `X dependency, license` line per entry, and never
\* with `Done.`.
C3_NoBaselineFails ==
    (ListReturned /\ ~baselineFile.exists /\ Len(restricted) > 0) =>
        /\ pc \in {"check", "exited"}
        /\ Printed(Msg("info", "Done.")) = 0
        /\ Exited =>
            /\ exits = <<[code |-> 1, at |-> "unhandled"]>>
            /\ Len(out) > Len(restricted)
            /\ out[Len(out) - Len(restricted)]
                  = Msg("error", "Found unhandled restricted dependencies!")
            /\ \A i \in 1..Len(restricted) :
                  out[Len(out) - Len(restricted) + i]
                    = [fn |-> "log", msg |-> "X",
                       str |-> <<"X", " ">> \o restricted[i].dependency.str
                               \o <<",", " ">> \o restricted[i].license.str]

\* Two restricted entries printed and the run failed, with no baseline.
C3_Witness ==
    /\ Exited /\ ~baselineFile.exists
    /\ Len(restricted) = 2
    /\ restricted[1].dependency.str # restricted[2].dependency.str
    /\ ExitCode = 1

\* The warning about baseline entries that matched nothing.
StaleWarning == Msg("warn", "Some entries in the baseline did not match")

\* C4: after the reconciliation unmatched is the baseline keys that are no
\* restricted entry's dependency; it is only warned about, before the
\* check of unhandled, and the exit code follows unhandled alone.
C4_UnmatchedOnlyWarns ==
    reconciled =>
        /\ {unmatched[i] : i \in 1..Len(unmatched)} = FileKeys \ RestrictedNames
        /\ (Len(unmatched) > 0) = (Printed(StaleWarning) > 0)
        /\ Exited =>
            /\ ExitCode = (IF Len(unhandled) > 0 THEN 1 ELSE 0)
            /\ \A i \in 1..Len(out) :
                  (Len(unmatched) > 0 /\ out[i].fn = "error")
                      => Printed(StaleWarning) < i

\* A run that warned about a stale baseline entry and exited 0.
C4_Witness ==
    /\ Exited /\ reconciled
    /\ Len(unmatched) > 0
    /\ Len(unhandled) = 0
    /\ ExitCode = 0

\* The exit code the summary and the baseline decide, read off the two
\* files alone.
Decided(summary, base) ==
    LET rows == [i \in 1..Len(summary.lines) |-> Split(summary.lines[i], Separator)]
        hits == {i \in 1..Len(rows) :
                    Len(rows[i]) >= 3 /\ ToLocaleLowerCase(rows[i][3]) = RestrictedLiteral}
        keys == {base.root.items[i] : i \in 1..Len(base.root.items)}
                \cup {base.root.props[i].key : i \in 1..Len(base.root.props)}
    IN  IF ~summary.exists THEN 1
        ELSE IF \E i \in 1..Len(rows) : Len(rows[i]) < 3 THEN 1
        ELSE IF hits = {} THEN 0
        ELSE IF ~base.exists \/ ~base.wellFormed THEN 1
        ELSE IF base.root.type \notin {"array", "object"} THEN 1
        ELSE IF \A i \in hits : rows[i][1] \in keys THEN 0
        ELSE 1

\* The scanner was started and ended with a non-zero code or by a signal.
ScannerFailed ==
    \E i \in 1..Len(spawned) :
        /\ spawned[i].bin = "java"
        /\ ~spawned[i].result.error
        /\ spawned[i].result.status # Num(0)

\* C5: a scanner that ran and failed is warned about and nothing more: the
\* run goes on to the summary, and exits with the code the summary and the
\* baseline decide, the one a scanner exiting 0 leads to.
C5_ScannerFailureOnlyWarns ==
    /\ ScannerFailed =>
        /\ pc # "scan"
        /\ \E i \in 1..Len(out) : out[i].fn = "warn" /\ out[i].msg \in {"code", "signal"}
        /\ Exited => (ExitAt # "spawn" /\ ExitCode = Decided(summaryFile, baselineFile))
    /\ (Exited /\ ExitAt \notin {"fetch", "spawn"})
          => ExitCode = Decided(summaryFile, baselineFile)

\* The scanner was killed by a signal and the run exited 0.
C5_Witness ==
    /\ Exited /\ ScannerFailed
    /\ spawned[Len(spawned)].result.signal.type = "string"
    /\ ExitCode = 0

\* The lines readSummaryLines has yielded that have fewer than four fields.
ShortLinesRead ==
    {i \in 1..Len(summaryFile.lines) :
        i < lineNo /\ Len(Split(summaryFile.lines[i], Separator)) < 4}

\* C6: a line with fewer than four fields raises no error, is not counted
\* as restricted and does not make the run exit 1.
C6_ShortLineTolerated ==
    (summaryFile.exists /\ ShortLinesRead # {}) =>
        /\ thrown # "TypeError"
        /\ Exited => ExitCode = Decided(File(SelectSeq(summaryFile.lines,
                                       LAMBDA l : Len(Split(l, Separator)) >= 4), "current"),
                                  baselineFile)

\* The entries of a map, as a set.
Entries(m) == {m[i] : i \in 1..Len(m)}

\* C7: readBaseline turns an array into a map from each element to null and
\* an object into a map from each key to its value, and ends the run with
\* code 1 and an error, before any reconciliation, for every other root.
C7_ReadBaseline ==
    /\ (pc = "reconcile" \/ reconciled) =>
        /\ BaselineLoads
        /\ \A i, j \in 1..Len(baseline) : baseline[i].key = baseline[j].key => i = j
        /\ baselineFile.root.type = "array" =>
              Entries(baseline) =
                  {[key |-> baselineFile.root.items[i], value |-> "null"] :
                      i \in 1..Len(baselineFile.root.items)}
        /\ baselineFile.root.type = "object" =>
              Entries(baseline) =
                  {baselineFile.root.props[i] : i \in 1..Len(baselineFile.root.props)}
    /\ (/\ ListReturned /\ Len(restricted) > 0 /\ pc # "check"
        /\ baselineFile.exists /\ baselineFile.wellFormed
        /\ baselineFile.root.type \notin {"array", "object"}) =>
        /\ Exited
        /\ exits = <<[code |-> 1, at |-> "readBaseline"]>>
        /\ out[Len(out)] = Msg("console.error", "Invalid format")
        /\ ~reconciled /\ baseline = <<>> /\ unmatched = <<>> /\ unhandled = <<>>
    /\ (Exited /\ ExitAt = "readBaseline") =>
          baselineFile.root.type \notin {"array", "object"}

\* A baseline whose root is null ended the run.
C7_Witness ==
    /\ Exited /\ ExitAt = "readBaseline"
    /\ baselineFile.root.type = "null"

\* The downloads attempted, and the one that ran and failed.
Downloads == {i \in 1..Len(spawned) : spawned[i].bin = "curl"}
DownloadFailed ==
    \E i \in Downloads :
        /\ ~spawned[i].result.error
        /\ spawned[i].result.status # Num(0)

C9_ExitOnlyAtCheckpoints ==
    /\ Len(exits) <= 1
    /\ Exited =>
        /\ ExitCode \in {0, 1}
        /\ ExitCode = 1 =>
            \/ ExitAt \in {"fetch", "readBaseline", "unhandled", "catch"}
            \/ ExitAt = "spawn" /\ spawned[Len(spawned)].bin = "curl"

\* C9 amended: the exit with code 1 is also produced by spawn, when the
\* download or the scanner cannot be started.
C9_ExitSites ==
    /\ Len(exits) <= 1
    /\ (pc = "exited") = (Len(exits) = 1)
    /\ Exited =>
        /\ ExitCode \in {0, 1}
        /\ (ExitCode = 0) = (ExitAt = "done")
        /\ ExitCode = 1 =>
              ExitAt \in {"fetch", "readBaseline", "unhandled", "catch", "spawn"}
        /\ (ExitAt = "spawn") = spawned[Len(spawned)].result.error
        /\ (ExitAt = "catch") = (thrown # "none")

\* The scanner could not be started and spawn ended the run.
C9_Witness ==
    /\ Exited /\ ExitAt = "spawn"
    /\ spawned[Len(spawned)].bin = "java"
    /\ ExitCode = 1

\* C10: the scanner starts with no file at the summary path, a summary
\* that was there being the backup by then; what is parsed is what this
\* run's scanner wrote, and without it the run does not exit 0.
C10_NoStaleSummary ==
    /\ pc = "scan" => ~summaryFile.exists
    /\ (\E i \in 1..Len(spawned) : spawned[i].bin = "java")
          => summaryFile.origin # "previous"
    /\ Printed(Msg("info", "Backing up previous summary...")) > 0
          => backupFile = File(PreviousSummary, "previous")
    /\ readOrigin \subseteq {"current"}
    /\ (Exited /\ ExitCode = 0) => (summaryFile.exists /\ summaryFile.origin = "current")
    /\ (Exited /\ ~summaryFile.exists /\ ExitAt \notin {"fetch", "spawn"})
          => (ExitCode = 1 /\ thrown = "ENOENT")

\* The previous summary was backed up, the scanner wrote none, the run
\* failed.
C10_Witness ==
    /\ Exited /\ ExitCode = 1 /\ thrown = "ENOENT"
    /\ backupFile = File(PreviousSummary, "previous")
    /\ ~summaryFile.exists

====
